---- MODULE Spec2Model ----
(***************************************************************************)
(* Model of tensorflow/tools/ci_build/windows/cpu/pip/                     *)
(* validate_wheel_size.py: the wheel size validator (main,                 *)
(* _validate_file_size, parse_args and the __main__ block).                *)
(*                                                                         *)
(* A file name is a sequence of one-character strings, a path a sequence   *)
(* of names, the file system a set of entries [path, kind, size].          *)
(***************************************************************************)
EXTENDS Integers, Sequences, FiniteSets, TLC

(* ---------------- bounds of the model ---------------- *)
\* largest number of children of the scanned directory (generic file systems)
MaxFiles == 2
\* sizes of generic files are k MB and k MB + 1 byte for k in 0..MaxSizeMB
MaxSizeMB == 1
\* limits passed on the command line / to main range over -2..MaxLimit
MaxLimit == 2

(* ---------------- program constants ---------------- *)
\* argparse default of --limit
DefaultLimit == 170
\* exit status of an uncaught Python exception
ExitUncaught == 1
\* exit status of an argparse usage error
ExitUsage == 2

(* ---------------- names and paths ---------------- *)
N_d    == <<"d">>
N_nope == <<"n", "o", "p", "e">>
N_sub  == <<"s", "u", "b">>
N_a    == <<"a", ".", "w", "h", "l">>
N_b    == <<"b", ".", "w", "h", "l">>
N_0    == <<"0", ".", "w", "h", "l">>
N_x    == <<"x", ".", "w", "h", "l">>
N_dot  == <<".", "w", "h", "l">>
N_t    == <<"t", ".", "t", "x", "t">>

Whl     == <<".", "w", "h", "l">>
StarWhl == <<"*", ".", "w", "h", "l">>

Last(s) == s[Len(s)]

\* str.rfind('.') + 1: the 1-based position of the last dot, 0 when none
RFindDot(name) ==
    LET ds == {i \in 1..Len(name) : name[i] = "."}
    IN  IF ds = {} THEN 0 ELSE CHOOSE i \in ds : \A j \in ds : j <= i

\* PurePath.suffix of the last component
Suffix(name) ==
    LET j == RFindDot(name)
    IN  IF 1 < j /\ j < Len(name) THEN SubSeq(name, j, Len(name)) ELSE <<>>

\* fnmatch of one path component against a pattern with "*" wildcards
RECURSIVE FnMatch(_, _)
FnMatch(pat, name) ==
    IF pat = <<>> THEN name = <<>>
    ELSE IF Head(pat) = "*"
         THEN FnMatch(Tail(pat), name)
              \/ (name # <<>> /\ FnMatch(pat, Tail(name)))
         ELSE name # <<>> /\ Head(name) = Head(pat)
              /\ FnMatch(Tail(pat), Tail(name))

(* ---------------- the file system ---------------- *)
MB == 1024 * 1024

Sizes == {k * MB : k \in 0..MaxSizeMB} \cup {k * MB + 1 : k \in 0..MaxSizeMB}
\* st_size of a directory depends on the platform (0 on NTFS, a block on ext4)
DirSizes == {0, 4096}

FileNames == {N_a, N_b, N_dot, N_t}
DirNames  == {N_sub, N_x}

Entry(p, k, s) == [path |-> p, kind |-> k, size |-> s]

ChildAttr(n) ==
    IF n \in DirNames THEN [kind : {"dir"}, size : DirSizes]
                      ELSE [kind : {"file"}, size : Sizes]

\* the directory d with at most MaxFiles children; the child directory sub
\* may itself hold one wheel file
GenericFS ==
    UNION { UNION { { {Entry(<<N_d>>, "dir", 0)}
                      \cup {Entry(<<N_d, n>>, a[n].kind, a[n].size) : n \in NS}
                      \cup inner
                      : inner \in IF N_sub \in NS
                                  THEN {{}} \cup {{Entry(<<N_d, N_sub, N_a>>, "file", s)} : s \in {0, MB + 1}}
                                  ELSE {{}} }
                    : a \in {f \in [NS -> [kind : {"file", "dir"}, size : Sizes \cup DirSizes]] :
                                \A n \in NS : f[n] \in ChildAttr(n)} }
            : NS \in {S \in SUBSET (FileNames \cup DirNames) : Cardinality(S) <= MaxFiles} }

\* the fixtures of main's doctest: a.whl 1MB, b.whl 2MB, t.txt 3MB, 0.whl 0MB
FixtureFS ==
    { Entry(<<N_d>>, "dir", 0),
      Entry(<<N_d, N_a>>, "file", 1024 * 1024 * 1),
      Entry(<<N_d, N_b>>, "file", 1024 * 1024 * 2),
      Entry(<<N_d, N_t>>, "file", 1024 * 1024 * 3),
      Entry(<<N_d, N_0>>, "file", 1024 * 1024 * 0) }

PathCands ==
    {<<N_d>>, <<N_nope>>, <<N_d, N_sub, N_a>>}
    \cup {<<N_d, n>> : n \in FileNames \cup DirNames \cup {N_0}}

Limits == (-2)..MaxLimit

Lookup(f, p) == CHOOSE e \in f : e.path = p
\* Path.is_file / Path.is_dir / Path.stat().st_size
IsFile(f, p) == \E e \in f : e.path = p /\ e.kind = "file"
IsDir(f, p)  == \E e \in f : e.path = p /\ e.kind = "dir"
StSize(f, p) == Lookup(f, p).size

\* the immediate children of directory dir
Children(f, dir) ==
    {e.path : e \in {x \in f : Len(x.path) = Len(dir) + 1
                               /\ SubSeq(x.path, 1, Len(dir)) = dir}}

\* Path.glob(pat) for a one-component pattern: a mutant that descends
GlobRecursive(f, dir, pat) ==
    {e.path : e \in {x \in f : Len(x.path) > Len(dir)
                               /\ SubSeq(x.path, 1, Len(dir)) = dir
                               /\ FnMatch(pat, Last(x.path))}}

\* mutant: the pattern ignored
GlobAnyName(f, dir, pat) == Children(f, dir)

\* Path.glob(pat) for a one-component pattern: the matching children
Glob(f, dir, pat) == {p \in Children(f, dir) : FnMatch(pat, Last(p))}

\* the orders in which the directory may be enumerated
Orders(S) ==
    {o \in [1..Cardinality(S) -> S] : \A i, j \in 1..Cardinality(S) : o[i] = o[j] => i = j}

(* ---------------- the pure parts of the script ---------------- *)
\* mutant: the comparison made strict on the other side
OversizedGeq(size, lim) == size >= lim * 1024 * 1024

\* mutant: the byte limit one too large
OversizedOffByOne(size, lim) == size > lim * 1024 * 1024 + 1

\* _validate_file_size: limit_bytes = limit * 1024 * 1024; st_size > limit_bytes
Oversized(size, lim) == size > lim * 1024 * 1024

\* mutant: no clamping
ClampNone(lim) == lim

\* mutant: the sign dropped instead of the value
ClampAbs(lim) == IF lim < 0 THEN -lim ELSE lim

\* main: a negative limit is treated as 0
Clamp(lim) == IF lim < 0 THEN 0 ELSE lim

\* mutant: the suffix test dropped
IsWheelFileAnySuffix(f, p) == IsFile(f, p)

\* main: path.is_file() and path.suffix == ".whl"
IsWheelFile(f, p) == IsFile(f, p) /\ Suffix(Last(p)) = Whl

\* mutant: another default
LimitOrDefault130(a) == IF a.hasLimit THEN a.limit ELSE 130

\* parse_args: --limit/-l, type=int, default=170
LimitOrDefault(a) == IF a.hasLimit THEN a.limit ELSE DefaultLimit

\* mutant: the failure swallowed
ExitCodeAlwaysZero(result) == 0

\* the interpreter's exit status after main returned or raised
ExitCode(result) == IF result = "returned" THEN 0 ELSE ExitUncaught

(* ---------------- events and exceptions ---------------- *)
Banner         == [type |-> "banner", path |-> <<>>, limit |-> 0]
ClampNotice(l) == [type |-> "clamp", path |-> <<>>, limit |-> l]
OkLine(p, l)   == [type |-> "ok", path |-> p, limit |-> l]

NoError             == [type |-> "none", msg |-> "", path |-> <<>>, limit |-> 0]
FileSizeError(p, l) == [type |-> "FileSizeError", msg |-> "over", path |-> p, limit |-> l]
NoWheelError(p)     == [type |-> "ValueError", msg |-> "nowheel", path |-> p, limit |-> 0]
InvalidPathError    == [type |-> "ValueError", msg |-> "invalid", path |-> <<>>, limit |-> 0]

(* ---------------- state ---------------- *)
VARIABLES
    fs,        \* the file system, fixed during a run
    argv,      \* how the script is entered and with which arguments
    pc,        \* position of the run
    path,      \* main's local path
    limit,     \* main's local limit (reassigned by the clamp)
    limit0,    \* history: the limit main was called with
    wheels,    \* main's tuple wheels (or the single file)
    idx,       \* position of the for loop in wheels
    out,       \* lines printed to standard output, in order
    checked,   \* history: the paths whose size was read, in order
    err,       \* the exception raised, NoError when none
    result,    \* "none", "returned" or "raised": how main ended
    exit       \* exit status of the process, -1 while it runs

vars == <<fs, argv, pc, path, limit, limit0, wheels, idx, out, checked, err, result, exit>>

Argvs ==
    \* main called as a function (the doctests do)
    [mode : {"call"}, hasPath : {TRUE}, path : PathCands, hasLimit : {TRUE}, limit : Limits]
    \cup
    \* the script run from the command line with a path
    [mode : {"cli"}, hasPath : {TRUE}, path : PathCands, hasLimit : {TRUE}, limit : Limits]
    \cup
    [mode : {"cli"}, hasPath : {TRUE}, path : PathCands, hasLimit : {FALSE}, limit : {0}]
    \cup
    \* without a path: no argument at all, or only --limit
    [mode : {"cli"}, hasPath : {FALSE}, path : {<<>>}, hasLimit : {TRUE}, limit : {1}]
    \cup
    [mode : {"cli"}, hasPath : {FALSE}, path : {<<>>}, hasLimit : {FALSE}, limit : {0}]

Init ==
    /\ fs \in GenericFS \cup {FixtureFS}
    /\ argv \in Argvs
    /\ pc = "start"
    /\ path = <<>>
    /\ limit = 0
    /\ limit0 = 0
    /\ wheels = <<>>
    /\ idx = 1
    /\ out = <<>>
    /\ checked = <<>>
    /\ err = NoError
    /\ result = "none"
    /\ exit = -1

(* ---------------- actions ---------------- *)
\* __main__ with len(sys.argv) == 1: the doctests are run, nothing is validated
RunDoctest ==
    /\ pc = "start"
    /\ argv.mode = "cli" /\ ~argv.hasPath /\ ~argv.hasLimit
    /\ out' = Append(out, Banner)
    /\ pc' = "exited"
    /\ exit' = 0
    /\ UNCHANGED <<fs, argv, path, limit, limit0, wheels, idx, checked, err, result>>

\* parse_args() fails: the positional path is missing
UsageError ==
    /\ pc = "start"
    /\ argv.mode = "cli" /\ ~argv.hasPath /\ argv.hasLimit
    /\ pc' = "exited"
    /\ exit' = ExitUsage
    /\ UNCHANGED <<fs, argv, path, limit, limit0, wheels, idx, out, checked, err, result>>

\* parser = parse_args(); main(parser.path, parser.limit)
ParseArgs ==
    /\ pc = "start"
    /\ argv.mode = "cli" /\ argv.hasPath
    /\ path' = argv.path
    /\ limit' = LimitOrDefault(argv)
    /\ limit0' = LimitOrDefault(argv)
    /\ pc' = "main"
    /\ UNCHANGED <<fs, argv, wheels, idx, out, checked, err, result, exit>>

\* main(path, limit) called directly
CallMain ==
    /\ pc = "start"
    /\ argv.mode = "call"
    /\ path' = argv.path
    /\ limit' = argv.limit
    /\ limit0' = argv.limit
    /\ pc' = "main"
    /\ UNCHANGED <<fs, argv, wheels, idx, out, checked, err, result, exit>>

\* main: if limit < 0: print the notice; limit = 0
ClampLimit ==
    /\ pc = "main"
    /\ out' = IF limit < 0 THEN Append(out, ClampNotice(limit)) ELSE out
    /\ limit' = Clamp(limit)
    /\ pc' = "dispatch"
    /\ UNCHANGED <<fs, argv, path, limit0, wheels, idx, checked, err, result, exit>>

\* main: the if / elif / else on the kind of path
Dispatch ==
    /\ pc = "dispatch"
    /\ IF IsWheelFile(fs, path)
       THEN /\ wheels' = <<path>>
            /\ pc' = "loop"
            /\ UNCHANGED <<err, result>>
       ELSE IF IsDir(fs, path)
       THEN LET ws == Glob(fs, path, StarWhl)
            IN  IF ws # {}
                THEN /\ \E o \in Orders(ws) : wheels' = o
                     /\ pc' = "loop"
                     /\ UNCHANGED <<err, result>>
                ELSE /\ err' = NoWheelError(path)
                     /\ result' = "raised"
                     /\ pc' = "done"
                     /\ UNCHANGED wheels
       ELSE /\ err' = InvalidPathError
            /\ result' = "raised"
            /\ pc' = "done"
            /\ UNCHANGED wheels
    /\ idx' = 1
    /\ UNCHANGED <<fs, argv, path, limit, limit0, out, checked, exit>>

\* mutant: every file is checked, the first failure is kept and raised at the end
ValidateFileSizeCollectAll ==
    /\ pc = "loop"
    /\ idx <= Len(wheels)
    /\ checked' = Append(checked, wheels[idx])
    /\ IF Oversized(StSize(fs, wheels[idx]), limit)
       THEN /\ err' = IF err = NoError THEN FileSizeError(wheels[idx], limit) ELSE err
            /\ UNCHANGED out
       ELSE /\ out' = Append(out, OkLine(wheels[idx], limit))
            /\ UNCHANGED err
    /\ idx' = idx + 1
    /\ IF idx = Len(wheels) /\ err' # NoError
       THEN result' = "raised" /\ pc' = "done"
       ELSE UNCHANGED <<result, pc>>
    /\ UNCHANGED <<fs, argv, path, limit, limit0, wheels, exit>>

\* _validate_file_size(wheel, limit) for the next wheel of the loop
ValidateFileSize ==
    /\ pc = "loop"
    /\ idx <= Len(wheels)
    /\ checked' = Append(checked, wheels[idx])
    /\ IF Oversized(StSize(fs, wheels[idx]), limit)
       THEN /\ err' = FileSizeError(wheels[idx], limit)
            /\ result' = "raised"
            /\ pc' = "done"
            /\ UNCHANGED <<out, idx>>
       ELSE /\ out' = Append(out, OkLine(wheels[idx], limit))
            /\ idx' = idx + 1
            /\ UNCHANGED <<err, result, pc>>
    /\ UNCHANGED <<fs, argv, path, limit, limit0, wheels, exit>>

\* main: the loop is exhausted, main returns None
Return ==
    /\ pc = "loop"
    /\ idx > Len(wheels)
    /\ result' = "returned"
    /\ pc' = "done"
    /\ UNCHANGED <<fs, argv, path, limit, limit0, wheels, idx, out, checked, err, exit>>

\* __main__: the interpreter ends after main returned or raised uncaught
ExitProcess ==
    /\ pc = "done"
    /\ argv.mode = "cli"
    /\ exit' = ExitCode(result)
    /\ pc' = "exited"
    /\ UNCHANGED <<fs, argv, path, limit, limit0, wheels, idx, out, checked, err, result>>

Next ==
    \/ RunDoctest
    \/ UsageError
    \/ ParseArgs
    \/ CallMain
    \/ ClampLimit
    \/ Dispatch
    \/ ValidateFileSize
    \/ Return
    \/ ExitProcess

Spec == Init /\ [][Next]_vars

(* ---------------- vocabulary of the properties ---------------- *)
\* the name ends in ".whl"
EndsWithWhl(name) ==
    Len(name) >= 4 /\ \A i \in 1..4 : name[Len(name) - 4 + i] = Whl[i]

\* a name with the suffix ".whl": something, then ".whl"
WheelFileName(name) == Len(name) > 4 /\ EndsWithWhl(name)

\* the limit that applies: a negative one counts as 0
EffLimit == IF limit0 < 0 THEN 0 ELSE limit0

MainEnded == result # "none"
PastClamp == argv.hasPath /\ pc \notin {"start", "main"}

OkIdx      == {i \in 1..Len(out) : out[i].type = "ok"}
OkCount(p) == Cardinality({i \in OkIdx : out[i].path = p})
WasChecked(p) == \E i \in 1..Len(checked) : checked[i] = p

\* the paths of the success lines, in the order printed
OkPaths ==
    LET oks == SelectSeq(out, LAMBDA e : e.type = "ok")
    IN  [i \in 1..Len(oks) |-> oks[i].path]

\* the children of the scanned directory whose name ends in ".whl"
WheelChildren == {c \in Children(fs, path) : EndsWithWhl(Last(c))}

\* position in wheels of the first file over the limit, 0 when none
FirstOver ==
    LET over == {i \in 1..Len(wheels) : StSize(fs, wheels[i]) > EffLimit * 2^20}
    IN  IF over = {} THEN 0 ELSE CHOOSE i \in over : \A j \in over : i <= j

SingleWheel == IsFile(fs, path) /\ WheelFileName(Last(path))

(* ---------------- properties ---------------- *)
\* C1: a wheel file (suffix .whl) whose size is at most limitMB * 2^20 bytes,
\* limitMB >= 0, the boundary included, validates without raising and prints
\* exactly one success line naming that file and limitMB.
C1_WithinLimitSucceeds ==
    (MainEnded /\ SingleWheel /\ limit0 >= 0 /\ StSize(fs, path) <= limit0 * 2^20)
        => /\ result = "returned"
           /\ err = NoError
           /\ out = <<OkLine(path, limit0)>>

C1_Witness ==
    /\ result = "returned" /\ SingleWheel
    /\ limit0 = 1 /\ StSize(fs, path) = 2^20

\* C2: a wheel file whose size is strictly greater than the limit * 2^20 bytes
\* makes the validation fail with FileSizeError naming that file and the
\* limit, and no success line is printed for that file.
C2_OverLimitFails ==
    /\ \A i \in 1..Len(checked) :
          StSize(fs, checked[i]) > limit * 2^20
              => /\ result = "raised"
                 /\ err = FileSizeError(checked[i], limit)
                 /\ OkCount(checked[i]) = 0
    /\ (MainEnded /\ SingleWheel /\ StSize(fs, path) > EffLimit * 2^20)
          => /\ result = "raised"
             /\ err = FileSizeError(path, EffLimit)
             /\ out = IF limit0 < 0 THEN <<ClampNotice(limit0)>> ELSE <<>>

C2_Witness ==
    /\ result = "raised" /\ SingleWheel
    /\ limit0 = 1 /\ StSize(fs, path) = 2^20 + 1
    /\ err = FileSizeError(path, 1)

\* C3: with a negative limit every comparison uses 0 and the clamp notice is
\* the first event of the run, before any validation output or failure; a
\* 0-byte wheel file with limit -1 gives the notice and then success; with a
\* limit >= 0 no notice is printed.
C3_ClampFirst ==
    /\ pc \in {"start", "main"} => (out = <<>> /\ err = NoError /\ checked = <<>>)
    /\ PastClamp =>
          IF limit0 < 0
          THEN /\ limit = 0
               /\ Len(out) >= 1
               /\ out[1] = ClampNotice(limit0)
               /\ \A i \in 2..Len(out) : out[i].type # "clamp"
          ELSE /\ limit = limit0
               /\ \A i \in 1..Len(out) : out[i].type # "clamp"
    /\ (MainEnded /\ limit0 = -1 /\ SingleWheel /\ StSize(fs, path) = 0)
          => /\ result = "returned"
             /\ out = <<ClampNotice(-1), OkLine(path, 0)>>

C3_Witness ==
    /\ fs = FixtureFS /\ path = <<N_d, N_0>> /\ limit0 = -1
    /\ result = "returned"
    /\ Len(out) = 2

\* C4: a path that is neither an existing file with the .whl suffix nor an
\* existing directory fails with the invalid-path ValueError for every limit;
\* no file is size-checked and no success line is printed.
C4_InvalidPath ==
    (MainEnded /\ ~SingleWheel /\ ~IsDir(fs, path))
        => /\ result = "raised"
           /\ err = InvalidPathError
           /\ checked = <<>>
           /\ OkIdx = {}

C4_Witness ==
    /\ result = "raised" /\ err = InvalidPathError
    /\ path = <<N_d, N_t>> /\ IsFile(fs, path)

\* C5: a directory none of whose immediate children has a name ending in .whl
\* fails with the no-wheel ValueError naming the directory; the enumeration
\* is not recursive: wheel files in subdirectories neither prevent the
\* failure nor are ever size-checked.
C5_NoWheelFiles ==
    /\ (MainEnded /\ IsDir(fs, path) /\ WheelChildren = {})
          => /\ result = "raised"
             /\ err = NoWheelError(path)
             /\ checked = <<>>
    /\ IsDir(fs, path)
          => \A i \in 1..Len(checked) : Len(checked[i]) = Len(path) + 1

C5_Witness ==
    /\ result = "raised" /\ err = NoWheelError(<<N_d>>)
    /\ IsFile(fs, <<N_d, N_sub, N_a>>)

\* C6 (as stated): in the fixture directory with limit 2, b.whl triggers
\* FileSizeError while t.txt is ignored.
C6_Original ==
    (MainEnded /\ fs = FixtureFS /\ path = <<N_d>> /\ limit0 = 2)
        => /\ err = FileSizeError(<<N_d, N_b>>, 2)
           /\ ~WasChecked(<<N_d, N_t>>)

\* C6 (amended): in the fixture directory (a.whl 1MB, b.whl 2MB, t.txt 3MB,
\* 0.whl 0MB) with limit 2, a.whl, b.whl and 0.whl all succeed, b.whl being
\* exactly at the limit, and t.txt is ignored; with limit 1 b.whl triggers
\* FileSizeError.
C6_FixtureDirectory ==
    (MainEnded /\ fs = FixtureFS /\ path = <<N_d>>)
        => /\ limit0 = 2 =>
                /\ result = "returned" /\ err = NoError
                /\ Len(out) = 3
                /\ \A n \in {N_a, N_b, N_0} : OkCount(<<N_d, n>>) = 1
           /\ limit0 = 1 =>
                /\ result = "raised"
                /\ err = FileSizeError(<<N_d, N_b>>, 1)
                /\ OkCount(<<N_d, N_b>>) = 0
           /\ ~WasChecked(<<N_d, N_t>>)

C6_Witness ==
    /\ fs = FixtureFS /\ path = <<N_d>> /\ limit0 = 2
    /\ result = "returned" /\ OkCount(<<N_d, N_b>>) = 1

\* C7: a command-line run with arguments ends with exit status 0 exactly when
\* the validation succeeded; every failure of main ends the process non-zero;
\* without --limit the limit used is 170.
C7_ExitStatus ==
    /\ (pc = "exited" /\ (argv.hasPath \/ argv.hasLimit))
          => /\ (exit = 0) <=> (result = "returned" /\ err = NoError)
             /\ err # NoError => exit # 0
    /\ (argv.mode = "cli" /\ argv.hasPath /\ ~argv.hasLimit /\ pc # "start")
          => limit0 = 170 /\ (pc # "main" => limit = 170)

C7_Witness ==
    /\ pc = "exited" /\ exit # 0
    /\ err.type = "FileSizeError"

\* C8: a directory scan validates the matching files one at a time in
\* enumeration order and stops at the first oversized one: success lines
\* exist for exactly the files before it, the failure is that file's
\* FileSizeError, and no later file is checked or reported.
C8_StopsAtFirstOversized ==
    /\ (pc = "loop" /\ IsDir(fs, path))
          => /\ checked = SubSeq(wheels, 1, idx - 1)
             /\ OkPaths = checked
    /\ (MainEnded /\ IsDir(fs, path) /\ wheels # <<>>)
          => IF FirstOver = 0
             THEN /\ result = "returned"
                  /\ checked = wheels
                  /\ OkPaths = wheels
             ELSE /\ result = "raised"
                  /\ err = FileSizeError(wheels[FirstOver], EffLimit)
                  /\ checked = SubSeq(wheels, 1, FirstOver)
                  /\ OkPaths = SubSeq(wheels, 1, FirstOver - 1)

C8_Witness ==
    /\ result = "raised" /\ IsDir(fs, path)
    /\ Len(wheels) = 3 /\ FirstOver = 2
    /\ Len(checked) = 2 /\ Len(OkPaths) = 1

\* C9: a directory validation succeeds exactly when the directory has a child
\* whose name ends in .whl and every such child is within the effective
\* limit; on success there is one success line per matching file, each file
\* once; children with another suffix are never checked, whatever their size.
C9_DirectorySuccess ==
    (MainEnded /\ IsDir(fs, path))
        => /\ (result = "returned")
                <=> (WheelChildren # {}
                     /\ \A w \in WheelChildren : StSize(fs, w) <= EffLimit * 2^20)
           /\ result = "returned"
                => /\ Cardinality(OkIdx) = Cardinality(WheelChildren)
                   /\ \A w \in WheelChildren : OkCount(w) = 1
           /\ \A i \in 1..Len(checked) : checked[i] \in WheelChildren

C9_Witness ==
    /\ result = "returned" /\ IsDir(fs, path)
    /\ Cardinality(WheelChildren) >= 2
    /\ \E c \in Children(fs, path) :
          c \notin WheelChildren /\ StSize(fs, c) > EffLimit * 2^20

\* C10: with a negative limit the clamp holds for the rest of the run: every
\* wheel file of at least one byte fails with FileSizeError, the failure
\* message and every success line report 0, and the negative value appears
\* only in the clamp notice.
C10_ClampedLimitReported ==
    (limit0 < 0 /\ PastClamp)
        => /\ \A i \in 1..Len(out) : out[i].type = "ok" => out[i].limit = 0
           /\ \A i \in 1..Len(out) : out[i].limit = limit0 => out[i].type = "clamp"
           /\ err.limit = 0
           /\ \A i \in 1..Len(checked) :
                 StSize(fs, checked[i]) >= 1 => err = FileSizeError(checked[i], 0)
           /\ (MainEnded /\ SingleWheel /\ StSize(fs, path) >= 1)
                 => err = FileSizeError(path, 0)

C10_Witness ==
    /\ limit0 < 0 /\ result = "raised"
    /\ err.type = "FileSizeError"
    /\ Len(checked) = 2 /\ Len(out) = 2

====
